---- MODULE Spec2Model ----
(***************************************************************************)
(* Model of src/routes/+page.svelte: the Pokemon stat comparison view.     *)
(*                                                                         *)
(* The component runs on one UI thread.  A handler runs to completion      *)
(* until it returns or reaches an await, so each action below is one such  *)
(* run-to-completion segment:                                              *)
(*   onMount              fetchPokemonList up to its first await           *)
(*   ListOk / ListFail    the rest of fetchPokemonList                     *)
(*   SetSearchTerm(t)     the search box is edited (bind:value)            *)
(*   togglePokemon(p)     the click handler, including the synchronous     *)
(*                        part of the updateChart() it calls               *)
(*   updateChartResumes   the detail fetches of one updateChart invocation *)
(*                        have all settled: Promise.all resolves and the   *)
(*                        invocation runs from line 74 to its end          *)
(* fetchPokemonDetails reads and writes no component state, so the order   *)
(* in which the fetches of one invocation settle is not observable; what   *)
(* the invocation sees is the array of their results, which is an input of *)
(* updateChartResumes.                                                     *)
(* Svelte flushes the DOM in a microtask after a state change, so at the   *)
(* start of every action the DOM is a function of the component state.     *)
(***************************************************************************)
EXTENDS Integers, Sequences, FiniteSets, TLC

\* ---------------------------------------------------------------- bounds
\* Largest catalog the list endpoint returns under Spec.
MaxCatalog == 2
\* Catalog size under SelSpec: one more than the selection capacity.
SelCatalog == 7
\* Detail fetches that may be under way at once under Spec.
MaxFetches == 3
\* Under FilterSpec: entries of the catalog, characters of a name,
\* characters of the search term.
FilterCatalog == 2
MaxNameLen == 2
MaxTermLen == 2

\* ------------------------------------------------------ program constants
\* The capacity tested by togglePokemon.
MaxSelected == 6
\* chartColors.length
NumColors == 6

\* Names the list endpoint returns, in response order.
PokemonNames ==
  << "bulbasaur", "ivysaur", "venusaur", "charmander", "charmeleon",
     "charizard", "squirtle", "wartortle", "blastoise", "caterpie" >>

VARIABLES
  pokemonData,      \* the catalog: sequence of [id, name]
  searchTerm,       \* the text of the search box: a sequence of characters
  listRequests,     \* requests made to the list endpoint so far
  selectedPokemon,  \* the selection: sequence of catalog entries
  chartInstance,    \* Null or the chart last assigned: [id, data, ctx]
  loading,          \* the loading indicator
  alertShown,       \* the last togglePokemon call raised the capacity alert
  listPc,           \* position of fetchPokemonList: "init", "fetching",
                    \* "done" (ended by the try) or "failed" (by the catch)
  renders,          \* updateChart invocations awaiting Promise.all, oldest first
  liveCharts        \* ids of the Chart objects created and not destroyed

vars ==
  << pokemonData, searchTerm, listRequests, selectedPokemon, chartInstance,
     loading, alertShown, listPc, renders, liveCharts >>

\* ---------------------------------------------------------------- helpers
Range(s) == { s[i] : i \in 1..Len(s) }

RemoveAt(s, i) == SubSeq(s, 1, i - 1) \o SubSeq(s, i + 1, Len(s))

\* chartInstance = null
Null == [id |-> 0]

\* data.results.map((pokemon, index) => ({id: index + 1, name, url})) for
\* a response whose results carry the names results[1], results[2], ...
CatalogFrom(results) ==
  [ i \in 1..Len(results) |-> [id |-> i, name |-> results[i]] ]

\* The catalog of the first n entries of the endpoint.
CatalogOf(n) == CatalogFrom(SubSeq(PokemonNames, 1, n))

\* ------------------------------------------------------------------ state
Init ==
  /\ pokemonData = << >>
  /\ searchTerm = << >>
  /\ listRequests = 0
  /\ selectedPokemon = << >>
  /\ chartInstance = Null
  /\ loading = FALSE
  /\ alertShown = FALSE
  /\ listPc = "init"
  /\ renders = << >>
  /\ liveCharts = {}

\* ------------------------------------------------------- fetchPokemonList
\* onMount: fetchPokemonList runs to its first await.
onMount ==
  /\ listPc = "init"
  /\ listPc' = "fetching"
  /\ loading' = TRUE
  /\ listRequests' = listRequests + 1
  /\ UNCHANGED << pokemonData, searchTerm, selectedPokemon, chartInstance,
                  alertShown, renders, liveCharts >>

\* The list request answers with the names results; finally: loading =
\* false.
ListOkWith(results) ==
  /\ listPc = "fetching"
  /\ listPc' = "done"
  /\ pokemonData' = CatalogFrom(results)
  /\ loading' = FALSE
  /\ UNCHANGED << searchTerm, listRequests, selectedPokemon, chartInstance,
                  alertShown, renders, liveCharts >>

\* The list request answers with the first n entries of the endpoint.
ListOk(n) == ListOkWith(SubSeq(PokemonNames, 1, n))

\* A variant of ListFail that asks the list endpoint once more before it
\* gives up.
ListFail_Retries ==
  /\ listPc = "fetching"
  /\ IF listRequests < 2
       THEN /\ listPc' = "fetching"
            /\ listRequests' = listRequests + 1
            /\ loading' = loading
       ELSE /\ listPc' = "failed"
            /\ listRequests' = listRequests
            /\ loading' = FALSE
  /\ UNCHANGED << pokemonData, searchTerm, selectedPokemon, chartInstance,
                  alertShown, renders, liveCharts >>

\* The request or response.json() rejects, or results is missing: the catch
\* logs, pokemonData keeps its value; finally: loading = false.
ListFail ==
  /\ listPc = "fetching"
  /\ listPc' = "failed"
  /\ loading' = FALSE
  /\ UNCHANGED << pokemonData, searchTerm, listRequests, selectedPokemon,
                  chartInstance, alertShown, renders, liveCharts >>

\* ------------------------------------------------------- filteredPokemon
\* Characters of the names the list endpoint returns, and characters the
\* user types into the search box.
NameAlphabet == { "a", "B" }

TermAlphabet == { "a", "A", "b" }

\* String.prototype.toLowerCase on one character.
LowerChar(c) ==
  CASE c = "A" -> "a"
    [] c = "B" -> "b"
    [] OTHER -> c

toLowerCase(s) == [ i \in 1..Len(s) |-> LowerChar(s[i]) ]

\* String.prototype.includes: t occurs in s at some offset.
includes(s, t) ==
  \E k \in 0..(Len(s) - Len(t)) : SubSeq(s, k + 1, k + Len(t)) = t

\* A variant of filteredPokemon that compares the term as typed.
filteredPokemon_TermAsTyped(data, term) ==
  LET Test(pokemon) == includes(toLowerCase(pokemon.name), term)
  IN  SelectSeq(data, Test)

\* Lines 110-112: pokemonData.filter(pokemon =>
\*   pokemon.name.toLowerCase().includes(searchTerm.toLowerCase()))
filteredPokemon(data, term) ==
  LET Test(pokemon) ==
        includes(toLowerCase(pokemon.name), toLowerCase(term))
  IN  SelectSeq(data, Test)

\* Line 157, bind:value={searchTerm}: the search box now reads t.
SetSearchTerm(t) ==
  /\ searchTerm' = t
  /\ UNCHANGED << pokemonData, listRequests, selectedPokemon, chartInstance,
                  loading, alertShown, listPc, renders, liveCharts >>

\* ---------------------------------------------------------- togglePokemon
\* A variant of FindIndex whose search misses the first element.
FindIndex_SkipsFirst(s, p) ==
  IF \E i \in 2..Len(s) : s[i].id = p.id
    THEN CHOOSE i \in 2..Len(s) :
           /\ s[i].id = p.id
           /\ \A j \in 2..(i - 1) : s[j].id # p.id
    ELSE 0

\* selectedPokemon.findIndex(p => p.id === pokemon.id), counted from 1;
\* 0 stands for JavaScript's -1 (no such element).
FindIndex(s, p) ==
  IF \E i \in 1..Len(s) : s[i].id = p.id
    THEN CHOOSE i \in 1..Len(s) :
           /\ s[i].id = p.id
           /\ \A j \in 1..(i - 1) : s[j].id # p.id
    ELSE 0

\* isPokemonSelected
isPokemonSelected(s, p) == \E i \in 1..Len(s) : s[i].id = p.id

\* Variants of NextSelection with a slip in them: no capacity test; the
\* first slice of the removal forgotten; the new entry put in front.
NextSelection_NoCapacity(s, p) ==
  LET index == FindIndex(s, p)
  IN  IF index >= 1
        THEN SubSeq(s, 1, index - 1) \o SubSeq(s, index + 1, Len(s))
        ELSE s \o << p >>

NextSelection_DropPrefix(s, p) ==
  LET index == FindIndex(s, p)
  IN  IF index >= 1
        THEN SubSeq(s, index + 1, Len(s))
        ELSE IF Len(s) < MaxSelected
               THEN s \o << p >>
               ELSE s

NextSelection_Prepend(s, p) ==
  LET index == FindIndex(s, p)
  IN  IF index >= 1
        THEN SubSeq(s, 1, index - 1) \o SubSeq(s, index + 1, Len(s))
        ELSE IF Len(s) < MaxSelected
               THEN << p >> \o s
               ELSE s

\* The value togglePokemon assigns to selectedPokemon (lines 116-125).
NextSelection(s, p) ==
  LET index == FindIndex(s, p)
  IN  IF index >= 1
        THEN SubSeq(s, 1, index - 1) \o SubSeq(s, index + 1, Len(s))
        ELSE IF Len(s) < MaxSelected
               THEN s \o << p >>
               ELSE s

\* A variant of CapacityAlert with the comparison off by one.
CapacityAlert_OffByOne(s, p) == FindIndex(s, p) = 0 /\ Len(s) > MaxSelected

\* Whether togglePokemon reaches the alert of line 123.
CapacityAlert(s, p) == FindIndex(s, p) = 0 /\ ~(Len(s) < MaxSelected)

\* ------------------------------------------------------------ updateChart
\* A variant of ReturnsEarly without the test of line 66.
ReturnsEarly_Never(sel) == FALSE

\* Line 66: if (selectedPokemon.length === 0) return;
ReturnsEarly(sel) == Len(sel) = 0

\* Lines 68-72: the invocation as it waits on Promise.all, with one detail
\* fetch under way for each entry of the selection read at line 71.
Awaiting(sel) == [ sel |-> sel ]

\* The stat names of the detail endpoint, in the order of the chart's axes
\* (the labels of line 76: HP, Ataque, Defensa, Ataque Esp., Defensa Esp.,
\* Velocidad).
StatNames ==
  << "hp", "attack", "defense", "special-attack", "special-defense", "speed" >>

\* The order of the axes: position j of a response holds stat j.
AxisOrder == [ j \in 1..Len(StatNames) |-> j ]

\* Orders in which a detail response may list the stats (position j of a
\* response in order o holds stat o[j]): the order of the axes, and the
\* same with the first two stats exchanged.
ResponseOrders ==
  { AxisOrder, << 2, 1 >> \o SubSeq(AxisOrder, 3, Len(AxisOrder)) }

\* The base_stat the detail endpoint gives entry id for stat j.
BaseStat(id, j) == 10 * id + j

\* fetchPokemonDetails (lines 47-62): the details of the entry when the
\* request and its parsing succeed, with data.stats mapped in the order of
\* the response; null (the catch of line 58) otherwise.
NullDetails == [ isNull |-> TRUE ]

fetchPokemonDetails(pokemon, ok, order) ==
  IF ok
    THEN [ isNull |-> FALSE,
           name |-> pokemon.name,
           stats |-> [ j \in 1..Len(order) |->
                        [ name |-> StatNames[order[j]],
                          value |-> BaseStat(pokemon.id, order[j]) ] ] ]
    ELSE NullDetails

\* Line 72: Promise.all keeps the order of selectedPokemon.map.
PokemonDetails(sel, ok, ord) ==
  [ k \in 1..Len(sel) |-> fetchPokemonDetails(sel[k], ok[k], ord[k]) ]

\* Line 78 reads pokemon.name of every detail: a null detail throws a
\* TypeError, which ends the invocation (its promise rejects, unobserved).
DetailsThrow(details) == \E k \in 1..Len(details) : details[k].isNull

\* Lines 77-83: one series per detail, in the order of the details.  The
\* label is the entry's name (the capitalised first letter is not modelled);
\* data is pokemon.stats.map(stat => stat.value); backgroundColor is the
\* index into chartColors.
Datasets(details) ==
  [ index \in 1..Len(details) |->
      [ label |-> details[index].name,
        data |-> [ j \in 1..Len(details[index].stats) |->
                    details[index].stats[j].value ],
        backgroundColor |-> (index - 1) % NumColors ] ]

\* Line 87 with the markup of lines 144-150: the canvas is in the document
\* only when loading is false and the selection is not empty.
GetElementById(ld, sel) ==
  IF ~ld /\ Len(sel) # 0 THEN "pokemonChart" ELSE "null"

\* A variant of DestroyChart that overwrites the handle without destroy().
DestroyChart_Skipped(live, chart) == live

\* Lines 89-91: if (chartInstance) chartInstance.destroy();
DestroyChart(live, chart) ==
  IF chart # Null THEN live \ { chart.id } ELSE live

\* The identity of the object new Chart(...) returns: an identity that
\* neither a live chart nor chartInstance has.
NewChartId(live, chart) ==
  LET used == live \cup { chart.id }
  IN  CHOOSE k \in 1..(Cardinality(used) + 1) :
        /\ k \notin used
        /\ \A m \in 1..(k - 1) : m \in used

\* The click handler: lines 115-127, with updateChart() run to its await.
togglePokemon(p) ==
  /\ selectedPokemon' = NextSelection(selectedPokemon, p)
  /\ alertShown' = CapacityAlert(selectedPokemon, p)
  /\ IF ReturnsEarly(selectedPokemon')
       THEN UNCHANGED << loading, renders >>
       ELSE /\ loading' = TRUE
            /\ renders' = Append(renders, Awaiting(selectedPokemon'))
  /\ UNCHANGED << pokemonData, searchTerm, listRequests, chartInstance,
                  listPc, liveCharts >>

\* Outcomes of the detail fetches of an invocation: TRUE where the fetch
\* yields details.
Outcomes(r) == [ 1..Len(r.sel) -> BOOLEAN ]

AllOk(r) == [ k \in 1..Len(r.sel) |-> TRUE ]

\* Orders of the stats in the responses of the detail fetches of an
\* invocation.
Orders(r) == [ 1..Len(r.sel) -> ResponseOrders ]

AxisOrders(r) == [ k \in 1..Len(r.sel) |-> AxisOrder ]

\* A variant of updateChartResumes that clears the chart when a detail is
\* missing instead of leaving it.
updateChartResumes_ClearsOnFailure(i, ok, ord) ==
  /\ renders' = RemoveAt(renders, i)
  /\ LET details == PokemonDetails(renders[i].sel, ok, ord)
     IN  IF DetailsThrow(details)
           THEN /\ chartInstance' = Null
                /\ liveCharts' = DestroyChart(liveCharts, chartInstance)
                /\ loading' = FALSE
           ELSE LET ctx == GetElementById(loading, selectedPokemon)
                    live == DestroyChart(liveCharts, chartInstance)
                    id == NewChartId(live, chartInstance)
                IN  /\ chartInstance' =
                         [ id |-> id, data |-> Datasets(details), ctx |-> ctx ]
                    /\ liveCharts' = live \cup { id }
                    /\ loading' = FALSE
  /\ UNCHANGED << pokemonData, searchTerm, listRequests, selectedPokemon,
                  alertShown, listPc >>

\* A variant of updateChartResumes that draws only when the selection is
\* still the one the invocation started on.
updateChartResumes_SkipsStale(i, ok, ord) ==
  /\ renders' = RemoveAt(renders, i)
  /\ LET details == PokemonDetails(renders[i].sel, ok, ord)
     IN  IF DetailsThrow(details)
           THEN UNCHANGED << chartInstance, liveCharts, loading >>
           ELSE IF renders[i].sel # selectedPokemon
             THEN /\ loading' = FALSE
                  /\ UNCHANGED << chartInstance, liveCharts >>
             ELSE LET ctx == GetElementById(loading, selectedPokemon)
                      live == DestroyChart(liveCharts, chartInstance)
                      id == NewChartId(live, chartInstance)
                  IN  /\ chartInstance' =
                           [ id |-> id, data |-> Datasets(details),
                             ctx |-> ctx ]
                      /\ liveCharts' = live \cup { id }
                      /\ loading' = FALSE
  /\ UNCHANGED << pokemonData, searchTerm, listRequests, selectedPokemon,
                  alertShown, listPc >>

\* The detail fetches of invocation i have settled with outcomes ok, the
\* responses listing the stats in the orders ord: updateChart resumes at
\* line 74 and runs to its end.
updateChartResumes(i, ok, ord) ==
  /\ renders' = RemoveAt(renders, i)
  /\ LET details == PokemonDetails(renders[i].sel, ok, ord)
     IN  IF DetailsThrow(details)
           THEN UNCHANGED << chartInstance, liveCharts, loading >>
           ELSE LET ctx == GetElementById(loading, selectedPokemon)
                    live == DestroyChart(liveCharts, chartInstance)
                    id == NewChartId(live, chartInstance)
                IN  /\ chartInstance' =
                         [ id |-> id, data |-> Datasets(details), ctx |-> ctx ]
                    /\ liveCharts' = live \cup { id }
                    /\ loading' = FALSE
  /\ UNCHANGED << pokemonData, searchTerm, listRequests, selectedPokemon,
                  alertShown, listPc >>

\* --------------------------------------------------------- specifications
\* The detail fetches under way: one per entry of every awaiting invocation.
RECURSIVE FetchesUnderWay(_)
FetchesUnderWay(rs) ==
  IF rs = << >> THEN 0 ELSE Len(Head(rs).sel) + FetchesUnderWay(Tail(rs))

\* The click on p keeps the fetches under way within the bound.
WithinFetches(p) ==
  FetchesUnderWay(renders) + Len(NextSelection(selectedPokemon, p)) <= MaxFetches

\* Any interleaving of clicks and fetch responses over a small catalog;
\* the detail responses list the stats in the order of the axes.
Next ==
  \/ onMount
  \/ \E n \in 0..MaxCatalog : ListOk(n)
  \/ ListFail
  \/ \E p \in Range(pokemonData) : WithinFetches(p) /\ togglePokemon(p)
  \/ \E i \in 1..Len(renders) :
       \E ok \in Outcomes(renders[i]) :
         updateChartResumes(i, ok, AxisOrders(renders[i]))

Spec == Init /\ [][Next]_vars

\* Every request eventually settles: the list request and the detail
\* fetches of every invocation.
FairSpec ==
  /\ Spec
  /\ WF_vars(onMount)
  /\ WF_vars((\E n \in 0..MaxCatalog : ListOk(n)) \/ ListFail)
  /\ WF_vars(\E i \in 1..Len(renders) :
               \E ok \in Outcomes(renders[i]) :
                 updateChartResumes(i, ok, AxisOrders(renders[i])))

\* A catalog larger than the capacity; the user clicks when no render is
\* awaiting its fetches, and every detail fetch succeeds.
SelNext ==
  \/ onMount
  \/ ListOk(SelCatalog)
  \/ \E p \in Range(pokemonData) : renders = << >> /\ togglePokemon(p)
  \/ \E i \in 1..Len(renders) :
       updateChartResumes(i, AllOk(renders[i]), AxisOrders(renders[i]))

SelSpec == Init /\ [][SelNext]_vars

\* As Spec, with every detail fetch succeeding and the responses listing
\* the stats in any of ResponseOrders.
StatNext ==
  \/ onMount
  \/ \E n \in 0..MaxCatalog : ListOk(n)
  \/ \E p \in Range(pokemonData) : WithinFetches(p) /\ togglePokemon(p)
  \/ \E i \in 1..Len(renders) :
       \E ord \in Orders(renders[i]) :
         updateChartResumes(i, AllOk(renders[i]), ord)

StatSpec == Init /\ [][StatNext]_vars

\* Any interleaving of clicks and fetch responses in which every request
\* succeeds and the responses list the stats in the order of the axes.
OkNext ==
  \/ onMount
  \/ \E n \in 0..MaxCatalog : ListOk(n)
  \/ \E p \in Range(pokemonData) : WithinFetches(p) /\ togglePokemon(p)
  \/ \E i \in 1..Len(renders) :
       updateChartResumes(i, AllOk(renders[i]), AxisOrders(renders[i]))

OkSpec == Init /\ [][OkNext]_vars

\* Strings of at most n characters of alphabet.
Strings(alphabet, n) == UNION { [ 1..m -> alphabet ] : m \in 0..n }

\* The list endpoint answers with any names; the user edits the search box.
FilterNext ==
  \/ onMount
  \/ \E m \in 0..FilterCatalog :
       \E results \in [ 1..m -> Strings(NameAlphabet, MaxNameLen) ] :
         ListOkWith(results)
  \/ \E t \in Strings(TermAlphabet, MaxTermLen) : SetSearchTerm(t)

FilterSpec == Init /\ [][FilterNext]_vars

\* ------------------------------------------------------------- properties
\* The entries of s whose id is not the id of p, in the order of s.
Without(s, p) ==
  LET Keep(q) == q.id # p.id
  IN  SelectSeq(s, Keep)

\* C1: after any sequence of togglePokemon calls from the empty selection,
\* selectedPokemon holds at most 6 entries.
C1_AtMostSix == Len(selectedPokemon) <= 6

\* The selection is full and a further add has been attempted.
C1_Witness == Len(selectedPokemon) = 6 /\ alertShown

\* C2: togglePokemon(e) on selection s removes the entry with the id of e,
\* keeping the others in order, when there is one; otherwise, when s has
\* fewer than 6 entries, it appends e as the last element.
C2_ToggleResult ==
  [][ \A p \in Range(pokemonData) :
        togglePokemon(p) =>
          IF isPokemonSelected(selectedPokemon, p)
            THEN selectedPokemon' = Without(selectedPokemon, p)
            ELSE Len(selectedPokemon) < 6 =>
                   selectedPokemon' = Append(selectedPokemon, p) ]_vars

\* The toggles 1, 2, 1: the chart drawn for [bulbasaur, ivysaur] is still
\* shown, bulbasaur has been removed, and the render of [ivysaur] is awaited.
C2_Witness ==
  /\ chartInstance # Null
  /\ Len(chartInstance.data) = 2
  /\ chartInstance.data[1].label = "bulbasaur"
  /\ chartInstance.data[2].label = "ivysaur"
  /\ selectedPokemon = << [id |-> 2, name |-> "ivysaur"] >>
  /\ Len(renders) = 1

\* C3 as stated: toggling an entry twice in a row leaves the selection
\* equal to what it was, with the same entries in the same order.
C3_TwiceIsIdentity ==
  \A p \in Range(pokemonData) :
    NextSelection(NextSelection(selectedPokemon, p), p) = selectedPokemon

\* C3 as amended: toggling an entry twice in a row leaves the same entries
\* selected; the order is the same when the entry was not selected or was
\* the last one, otherwise the entry has moved to the end and the others
\* keep their relative order.
C3_TwiceKeepsEntries ==
  \A p \in Range(pokemonData) :
    LET twice == NextSelection(NextSelection(selectedPokemon, p), p)
    IN  /\ Range(twice) = Range(selectedPokemon)
        /\ Len(twice) = Len(selectedPokemon)
        /\ IF isPokemonSelected(selectedPokemon, p)
             THEN twice = Append(Without(selectedPokemon, p), p)
             ELSE twice = selectedPokemon

\* On [bulbasaur, ivysaur], toggling bulbasaur twice gives
\* [ivysaur, bulbasaur].
C3_Witness ==
  LET b == [id |-> 1, name |-> "bulbasaur"]
      i == [id |-> 2, name |-> "ivysaur"]
  IN  /\ selectedPokemon = << b, i >>
      /\ NextSelection(NextSelection(selectedPokemon, b), b) = << i, b >>

\* C4: togglePokemon with an entry that is not selected, on a selection of
\* 6 entries, leaves the selection as it was and raises the capacity alert.
C4_FullRejects ==
  [][ \A p \in Range(pokemonData) :
        ( /\ togglePokemon(p)
          /\ Len(selectedPokemon) = 6
          /\ ~isPokemonSelected(selectedPokemon, p) )
        => /\ selectedPokemon' = selectedPokemon
           /\ alertShown' ]_vars

\* The first six entries are selected, in catalog order, and the last
\* toggle was rejected.
C4_Witness ==
  /\ alertShown
  /\ Len(selectedPokemon) = 6
  /\ \A k \in 1..6 : selectedPokemon[k].id = k

\* C5: a toggle rejected for capacity starts no render: no detail fetch is
\* issued, and the loading indicator and the chart are left as they were.
C5_RejectedToggleIsNoOp ==
  [][ \A p \in Range(pokemonData) :
        ( /\ togglePokemon(p)
          /\ Len(selectedPokemon) = 6
          /\ ~isPokemonSelected(selectedPokemon, p) )
        => UNCHANGED << renders, loading, chartInstance, liveCharts >> ]_vars

\* C6: in every reachable state at most one chart is live (created and not
\* destroyed), and it is the one chartInstance holds: a creation destroys
\* the chart that was live in the same uninterrupted run of updateChart.
C6_AtMostOneLiveChart ==
  /\ Cardinality(liveCharts) <= 1
  /\ chartInstance = Null => liveCharts = {}
  /\ chartInstance # Null => liveCharts = { chartInstance.id }

\* A second chart has replaced the first while another invocation is
\* still awaiting its fetches.
C6_Witness ==
  /\ chartInstance # Null
  /\ chartInstance.id = 2
  /\ liveCharts = { 2 }
  /\ Len(renders) >= 1

\* C7: an updateChart invocation that starts while the selection is empty
\* issues no detail fetch, does not set the loading indicator, and neither
\* destroys nor creates a chart.
C7_EmptySelectionDoesNothing ==
  [][ \A p \in Range(pokemonData) :
        (togglePokemon(p) /\ Len(selectedPokemon') = 0)
        => UNCHANGED << renders, loading, chartInstance, liveCharts >> ]_vars

\* The last entry has been deselected: the chart drawn before is still
\* there, nothing is awaited and the loading indicator is off.
C7_Witness ==
  /\ Len(selectedPokemon) = 0
  /\ chartInstance # Null
  /\ liveCharts = { chartInstance.id }
  /\ renders = << >>
  /\ ~loading

C9_ChartBoundToCanvas ==
  [][ chartInstance' # chartInstance =>
        /\ ~loading
        /\ Len(selectedPokemon) # 0
        /\ chartInstance'.ctx = "pokemonChart" ]_vars

\* C10: every updateChart invocation that has set the loading indicator is
\* eventually followed by the indicator being off, given that every detail
\* fetch eventually settles, with details or with a failure.
C10_LoadingEventuallyOff == [](renders # << >> => <>(~loading))

\* The series the chart is to show for selection sel: one per entry, in
\* the order of sel, with the entry's stats in the order of the axes.
SeriesOf(sel) ==
  [ i \in 1..Len(sel) |->
      [ label |-> sel[i].name,
        data |-> [ j \in 1..6 |-> BaseStat(sel[i].id, j) ],
        backgroundColor |-> (i - 1) % 6 ] ]

\* C11: an updateChart invocation started on selection s whose fetches all
\* succeed creates a dataset of |s| series; series i carries the i-th entry
\* of s, palette entry i mod 6 and the entry's 6 stat values in the order
\* of the axes, whatever the order of the stats in the responses.
C11_DatasetInAxisOrder ==
  [][ chartInstance' # chartInstance =>
        \A i \in 1..Len(renders) :
          \A ord \in Orders(renders[i]) :
            updateChartResumes(i, AllOk(renders[i]), ord) =>
              chartInstance'.data = SeriesOf(renders[i].sel) ]_vars

\* C12: in every reachable state no two entries of the selection have the
\* same id.
C12_UniqueIds ==
  \A i, j \in 1..Len(selectedPokemon) :
    i # j => selectedPokemon[i].id # selectedPokemon[j].id

\* A full selection that starts with the last catalog entry and ends with
\* the first one.
C12_Witness ==
  /\ Len(selectedPokemon) = 6
  /\ selectedPokemon[1].id = Len(pokemonData)
  /\ selectedPokemon[6].id = 1

\* The name of entry i of the catalog contains the term at some offset,
\* letter case apart.
Matches(data, term, i) ==
  \E off \in 0..(Len(data[i].name) - Len(term)) :
    \A j \in 1..Len(term) :
      LowerChar(data[i].name[off + j]) = LowerChar(term[j])

\* s is the subsequence of data at the indices in idx, in the order of data.
IsSubsequenceAt(s, data, idx) ==
  /\ Len(s) = Cardinality(idx)
  /\ \A k \in 1..Len(s) :
       \E i \in idx :
         /\ s[k] = data[i]
         /\ Cardinality({ h \in idx : h < i }) = k - 1

\* C13: filteredPokemon is the subsequence of the catalog, in catalog
\* order, of the entries whose lower-cased name contains the lower-cased
\* term; the empty term yields the whole catalog.
C13_FilterIsSubsequence ==
  LET shown == filteredPokemon(pokemonData, searchTerm)
      idx == { i \in 1..Len(pokemonData) :
                 Matches(pokemonData, searchTerm, i) }
  IN  /\ IsSubsequenceAt(shown, pokemonData, idx)
      /\ searchTerm = << >> => shown = pokemonData

\* The term "bA" against the names "a", "Ba": only the second entry is
\* shown, matched through the letter case of the name and of the term.
C13_Witness ==
  /\ Len(pokemonData) = 2
  /\ pokemonData[1].name = << "a" >>
  /\ pokemonData[2].name = << "B", "a" >>
  /\ searchTerm = << "b", "A" >>
  /\ filteredPokemon(pokemonData, searchTerm) = << pokemonData[2] >>

\* C14: exactly one list request is made in every run; when it fails the
\* catalog stays empty, loading is false from the end of fetchPokemonList
\* on, and no further list request is issued.
C14_SingleRequest ==
  /\ [](/\ listRequests <= 1
        /\ listPc # "init" => listRequests = 1
        /\ listPc = "failed" => pokemonData = << >> /\ ~loading)
  /\ <>(listRequests = 1)

\* The list request has failed.
C14_Witness ==
  /\ listPc = "failed"
  /\ listRequests = 1
  /\ pokemonData = << >>
  /\ ~loading

\* C15: overlapping renders are not serialized.  Whenever the fetches of
\* an invocation have all succeeded, the chart becomes the series of the
\* selection that invocation started on, whatever the current selection
\* is and whichever invocation started first; so when the newer of two
\* renders resolves first, the chart ends as the series of the earlier
\* selection.
C15_LastResolvedWins ==
  [][ Len(renders') < Len(renders) =>
        \E i \in 1..Len(renders) :
          /\ renders' = RemoveAt(renders, i)
          /\ chartInstance' # Null
          /\ chartInstance'.data = SeriesOf(renders[i].sel) ]_vars

\* After the clicks on bulbasaur and on ivysaur no render is awaited, and
\* the live chart shows bulbasaur alone: the render of the second click
\* resolved before the render of the first.
C15_Witness ==
  /\ renders = << >>
  /\ Len(selectedPokemon) = 2
  /\ selectedPokemon[1].id = 1
  /\ selectedPokemon[2].id = 2
  /\ chartInstance # Null
  /\ chartInstance.id \in liveCharts
  /\ chartInstance.data = SeriesOf(<< selectedPokemon[1] >>)
  /\ chartInstance.data # SeriesOf(selectedPokemon)

\* C16: no chart is created at a moment when the current selection is
\* empty, in any interleaving of clicks and render completions.
C16_NoChartOnEmptySelection ==
  [][ chartInstance' # chartInstance => Len(selectedPokemon) # 0 ]_vars

\* C17: in every reachable state in which some updateChart invocation is
\* awaiting its detail fetches, the loading indicator is true.
C17_LoadingWhileFetching == renders # << >> => loading

====
